---- MODULE Spec2Model ----
(***************************************************************************)
(* Model of the reservation handler of Hostal MAGIC                        *)
(* (cicd-pipelines/pipelines/build/lambda/Lambda_reservas_handler.py).     *)
(*                                                                         *)
(* State: the three DynamoDB tables (quartos, reservas, clientes), the     *)
(* mails handed to SES, the messages handed to SQS, and the Lambda         *)
(* invocations in flight.  Every call to a table or a service is one       *)
(* atomic step of an invocation; invocations interleave between steps.     *)
(* The queries of one availability check are one step: no write of the     *)
(* handler changes what a query on quarto-data-index returns (see          *)
(* ItemReserva), so splitting them adds no behaviour.  The response an      *)
(* invocation returns is held in retorno until it is delivered; delivery   *)
(* commutes with every other step and is taken first.                      *)
(*                                                                         *)
(* Dates: the handler receives ISO texts and parses them with              *)
(* datetime.fromisoformat.  A text is <<"iso", n>> (the ISO text of day n) *)
(* or <<"txt", 0>> (a text fromisoformat rejects with ValueError).         *)
(***************************************************************************)
EXTENDS Integers, Sequences, FiniteSets, TLC

\* ------------------------------------------------------------------ bounds
MaxDia == 2
MaxHospedes == 1
MaxCriadas == 2
NumInvocacoes == 2
\* inputs of the specifications that exercise one function
MaxDiaQ == 3
MaxReservasQ == 2
MaxHospedesQ == 4
\* days 0..MaxDiaV for the dates of a pipeline event
MaxDiaV == 2
\* the longest dashboard_ids list of a refresh event
MaxPaineis == 3

\* ------------------------------------------------------- program constants
TaxaHospedeExtra == 15
HospedesInclusos == 2

VARIABLES quartos, reservas, clientes, emails, fila_bi, pedidos, proxId, retorno,
          entrada, saida

vars == <<quartos, reservas, clientes, emails, fila_bi, pedidos, proxId, retorno,
          entrada, saida>>

\* ------------------------------------------------------------- date texts
DataISO(n) == <<"iso", n>>
DataInvalida == <<"txt", 0>>
Datas == {DataISO(n) : n \in 0..MaxDia} \cup {DataInvalida}
DatasISO == {DataISO(n) : n \in 0..MaxDia}

\* datetime.fromisoformat raises ValueError on a text that is not ISO
EhISO(texto) == texto[1] = "iso"
\* datetime.fromisoformat: the day the ISO text denotes
fromisoformat(texto) == texto[2]

\* ---------------------------------------------------------------- catalog
SemQuarto == "-"
Tipos == {"dormitorio", "duplo", "suite"}
Emails == {"ana@magic"}
Hospedes == 1..MaxHospedes

\* What the boto3 resource hands back for an attribute: a DynamoDB Number
\* arrives as decimal.Decimal, a String as str.
Decimal(n) == <<"Decimal", n>>
Str(n) == <<"str", n>>

\* json.dumps (line 169) encodes str, float, list and dict values and raises
\* TypeError on a Decimal.
json_dumps_ok(valor) == valor[1] # "Decimal"

\* The quartos table in the order of its tipo-index: one dormitorio, two
\* duplo rooms, no suite.  capacidade is stored as a Number; preco_diaria is
\* the value after the float() of lines 162 and 244.
Catalogo ==
  << [quarto_id |-> "q1", tipo |-> "dormitorio", capacidade |-> Decimal(8), preco_diaria |-> 50],
     [quarto_id |-> "q2", tipo |-> "duplo", capacidade |-> Decimal(2), preco_diaria |-> 80],
     [quarto_id |-> "q3", tipo |-> "duplo", capacidade |-> Decimal(2), preco_diaria |-> 80] >>

\* Names bound at module level of Lambda_reservas_handler.py.  The handler
\* calls listar_reservas, cancelar_reserva and
\* atualizar_disponibilidade_quarto, which no file of the repository
\* defines: calling them raises NameError.
FuncoesDefinidas ==
  {"lambda_handler", "criar_reserva", "consultar_disponibilidade",
   "verificar_disponibilidade", "verificar_quarto_disponivel",
   "calcular_valor_reserva", "criar_ou_atualizar_cliente",
   "enviar_email_confirmacao", "enviar_para_fila_bi", "headers_cors",
   "erro_response"}

\* ------------------------------------------------------------- responses
headers_cors ==
  [origin |-> "*",
   headers |-> "Content-Type,X-Amz-Date,Authorization,X-Api-Key,X-Amz-Security-Token",
   methods |-> "GET,POST,OPTIONS,PUT,DELETE"]

SemResposta ==
  [statusCode |-> 0, headers |-> headers_cors, error |-> "", success |-> FALSE,
   reserva_id |-> 0, valor_total |-> 0, quartos_disponiveis |-> <<>>,
   total_encontrados |-> 0]

erro_response(mensagem) ==
  [SemResposta EXCEPT !.statusCode = 400, !.error = mensagem]

\* The handler without its outer except clause: the exception reaches the
\* Lambda runtime and the caller gets no response of the handler.
ExcecaoPropagada ==
  [SemResposta EXCEPT !.error = "exception"]

RespostaErroInterno ==
  [SemResposta EXCEPT !.statusCode = 500, !.error = "Erro interno do servidor"]

RespostaAcaoDesconhecida ==
  [SemResposta EXCEPT !.statusCode = 400, !.error = "Acao nao reconhecida"]

RespostaReservaCriada(reserva_id, valor_total) ==
  [SemResposta EXCEPT !.statusCode = 200, !.success = TRUE,
                      !.reserva_id = reserva_id, !.valor_total = valor_total]

RespostaDisponibilidade(lista) ==
  [SemResposta EXCEPT !.statusCode = 200, !.quartos_disponiveis = lista,
                      !.total_encontrados = Len(lista)]

\* ------------------------------------------------------- availability
\* The overlap test with closed intervals: a stay that starts on the day
\* another ends counts as overlapping.
SobrepoeFechado(checkin_date, checkout_date, reserva_checkin, reserva_checkout) ==
  checkin_date <= reserva_checkout /\ checkout_date >= reserva_checkin

\* The overlap test of line 220 on parsed dates.
Sobrepoe(checkin_date, checkout_date, reserva_checkin, reserva_checkout) ==
  checkin_date < reserva_checkout /\ checkout_date > reserva_checkin

\* reservas_table.query on quarto-data-index: the index holds only the items
\* that carry the quarto_id attribute; the filter keeps status confirmada.
ItensDoQuarto(tabela, quarto_id) ==
  {r \in tabela : r.quarto_id = quarto_id /\ r.status = "confirmada"}

\* The room test answering yes when its ledger query raises.
verificar_quarto_aberto_na_falha(tabela, quarto_id, checkin, checkout, consultaOk) ==
  IF ~consultaOk THEN TRUE
  ELSE IF ~EhISO(checkin) \/ ~EhISO(checkout) THEN FALSE
  ELSE \A r \in ItensDoQuarto(tabela, quarto_id) :
         /\ EhISO(r.checkin) /\ EhISO(r.checkout)
         /\ ~ Sobrepoe(fromisoformat(checkin), fromisoformat(checkout),
                       fromisoformat(r.checkin), fromisoformat(r.checkout))

\* consultaOk is FALSE when the query raises.
verificar_quarto_disponivel(tabela, quarto_id, checkin, checkout, consultaOk) ==
  IF ~consultaOk THEN FALSE
  ELSE IF ~EhISO(checkin) \/ ~EhISO(checkout) THEN FALSE
  ELSE LET itens == ItensDoQuarto(tabela, quarto_id) IN
       IF \E r \in itens : ~EhISO(r.checkin) \/ ~EhISO(r.checkout) THEN
         \* the loop returns False at the first overlap and the handler
         \* returns False at the first stored text that does not parse
         FALSE
       ELSE ~ \E r \in itens :
                Sobrepoe(fromisoformat(checkin), fromisoformat(checkout),
                         fromisoformat(r.checkin), fromisoformat(r.checkout))

\* quartos_table.query on tipo-index
QuartosDoTipo(catalogo, tipo_quarto) ==
  SelectSeq(catalogo, LAMBDA q : q.tipo = tipo_quarto)

\* The loop of lines 190-192 giving up after the first room of the type.
SoPrimeiroQuarto(itens, tabela, checkin, checkout, falhas) ==
  IF itens = <<>> THEN [disponivel |-> FALSE, quarto_id |-> SemQuarto]
  ELSE IF verificar_quarto_disponivel(tabela, Head(itens).quarto_id, checkin,
                                      checkout, Head(itens).quarto_id \notin falhas)
       THEN [disponivel |-> TRUE, quarto_id |-> Head(itens).quarto_id]
       ELSE [disponivel |-> FALSE, quarto_id |-> SemQuarto]

RECURSIVE PrimeiroLivre(_, _, _, _, _)
PrimeiroLivre(itens, tabela, checkin, checkout, falhas) ==
  IF itens = <<>> THEN [disponivel |-> FALSE, quarto_id |-> SemQuarto]
  ELSE IF verificar_quarto_disponivel(tabela, Head(itens).quarto_id, checkin,
                                      checkout, Head(itens).quarto_id \notin falhas)
       THEN [disponivel |-> TRUE, quarto_id |-> Head(itens).quarto_id]
       ELSE PrimeiroLivre(Tail(itens), tabela, checkin, checkout, falhas)

\* The availability test answering yes when the catalog holds no room of the type.
verificar_disponibilidade_sem_quartos(catalogo, tabela, checkin, checkout, tipo_quarto, catalogoOk, falhas) ==
  IF ~catalogoOk THEN [disponivel |-> FALSE, quarto_id |-> SemQuarto]
  ELSE IF QuartosDoTipo(catalogo, tipo_quarto) = <<>>
       THEN [disponivel |-> TRUE, quarto_id |-> SemQuarto]
       ELSE PrimeiroLivre(QuartosDoTipo(catalogo, tipo_quarto), tabela, checkin, checkout, falhas)

\* catalogoOk is FALSE when the catalog query raises; falhas is the set of
\* rooms whose ledger query raises.
verificar_disponibilidade(catalogo, tabela, checkin, checkout, tipo_quarto, catalogoOk, falhas) ==
  IF ~catalogoOk THEN [disponivel |-> FALSE, quarto_id |-> SemQuarto]
  ELSE PrimeiroLivre(QuartosDoTipo(catalogo, tipo_quarto), tabela, checkin,
                     checkout, falhas)

\* ------------------------------------------------------------- pricing
\* The price with the extra-guest fee charged once per stay instead of once
\* per night.
calcular_valor_taxa_por_estadia(catalogo, checkin, checkout, tipo_quarto, num_hospedes, consultaOk) ==
  IF ~consultaOk THEN 0
  ELSE LET itens == SelectSeq(catalogo, LAMBDA q : q.tipo = tipo_quarto) IN
       IF itens = <<>> THEN 0
       ELSE IF ~EhISO(checkin) \/ ~EhISO(checkout) THEN 0
       ELSE LET noites == fromisoformat(checkout) - fromisoformat(checkin)
                taxa == IF num_hospedes > HospedesInclusos
                        THEN (num_hospedes - HospedesInclusos) * TaxaHospedeExtra
                        ELSE 0
            IN itens[1].preco_diaria * noites + taxa

calcular_valor_reserva(catalogo, checkin, checkout, tipo_quarto, num_hospedes, consultaOk) ==
  IF ~consultaOk THEN 0
  ELSE LET itens == QuartosDoTipo(catalogo, tipo_quarto) IN
       IF itens = <<>> THEN 0
       ELSE IF ~EhISO(checkin) \/ ~EhISO(checkout) THEN 0
       ELSE LET preco_diaria == itens[1].preco_diaria
                noites == fromisoformat(checkout) - fromisoformat(checkin)
                taxa_extra_hospede ==
                  IF num_hospedes > HospedesInclusos
                  THEN (num_hospedes - HospedesInclusos) * TaxaHospedeExtra
                  ELSE 0
            IN (preco_diaria + taxa_extra_hospede) * noites

\* ------------------------------------------------------------ the ledger
\* Bookings present in the reservas table before the first invocation.  They
\* carry the quarto_id attribute that quarto-data-index is keyed on.
Sementes ==
  { [reserva_id |-> 1, quarto_id |-> "q1", cliente_email |-> "bia@magic",
     checkin |-> DataISO(0), checkout |-> DataISO(1), tipo_quarto |-> "dormitorio",
     num_hospedes |-> 1, valor_total |-> 50, status |-> "confirmada"],
    [reserva_id |-> 2, quarto_id |-> "q2", cliente_email |-> "bia@magic",
     checkin |-> DataISO(0), checkout |-> DataISO(1), tipo_quarto |-> "duplo",
     num_hospedes |-> 2, valor_total |-> 80, status |-> "cancelada"] }

\* str(uuid.uuid4()): an identifier no other booking carries
NovoId(n) == Cardinality(Sementes) + n

\* The item built with a status awaiting confirmation.
ItemReservaPendente(reserva_id, email, checkin, checkout, tipo_quarto, num_hospedes, valor_total) ==
  [reserva_id |-> reserva_id, quarto_id |-> SemQuarto, cliente_email |-> email,
   checkin |-> checkin, checkout |-> checkout, tipo_quarto |-> tipo_quarto,
   num_hospedes |-> num_hospedes, valor_total |-> valor_total,
   status |-> "pendente"]

\* The item criar_reserva builds at lines 91-105.  It has no quarto_id
\* attribute.
ItemReserva(reserva_id, email, checkin, checkout, tipo_quarto, num_hospedes, valor_total) ==
  [reserva_id |-> reserva_id, quarto_id |-> SemQuarto, cliente_email |-> email,
   checkin |-> checkin, checkout |-> checkout, tipo_quarto |-> tipo_quarto,
   num_hospedes |-> num_hospedes, valor_total |-> valor_total,
   status |-> "confirmada"]

\* ------------------------------------------------------------ invocations
campos_obrigatorios ==
  <<"cliente_email", "checkin", "checkout", "tipo_quarto", "num_hospedes">>

TodosCampos == {campos_obrigatorios[k] : k \in 1..Len(campos_obrigatorios)}

\* The validation loop reporting the head of the list whatever is absent.
PrimeiroDaLista(campos) == campos_obrigatorios[1]

\* the loop of lines 62-64: the first required field, in the order of the
\* list, that the request lacks
PrimeiroAusente(campos) ==
  campos_obrigatorios[CHOOSE k \in 1..Len(campos_obrigatorios) :
     /\ campos_obrigatorios[k] \notin campos
     /\ \A j \in 1..(k - 1) : campos_obrigatorios[j] \in campos]

MensagemCampo(campo) == <<"Campo obrigatorio: ", campo>>

\* a global name the module binds; calling any other raises NameError
NomeDefinido(nome) == nome \in FuncoesDefinidas

\* the fields of a criar_reserva request that the availability check reads
Pedido(tipo_quarto, checkin, checkout) ==
  [tipo_quarto |-> tipo_quarto, checkin |-> checkin, checkout |-> checkout]

SemPedido == Pedido("", DataInvalida, DataInvalida)

SemRetorno ==
  [acao |-> "", campos |-> {}, alvo |-> 0, gravou |-> 0, pedido |-> SemPedido,
   resposta |-> SemResposta]

\* the invocation returns resposta
Retornar(acao, campos, alvo, gravou, resposta) ==
  retorno' = [acao |-> acao, campos |-> campos, alvo |-> alvo, gravou |-> gravou,
              pedido |-> SemPedido, resposta |-> resposta]

\* criar_reserva returns resposta for a request that carried every field
RetornarCriar(pedido, gravou, resposta) ==
  retorno' = [acao |-> "criar_reserva", campos |-> TodosCampos, alvo |-> 0,
              gravou |-> gravou, pedido |-> pedido, resposta |-> resposta]

\* a new invocation can start
PodeIniciar == retorno = SemRetorno /\ Cardinality(pedidos) < NumInvocacoes

\* the sets a step draws its collaborators' outcomes from: F is BOOLEAN
\* when the collaborators may fail, {TRUE} when they do not
Resultados(F) == F
TodosQuartos == {Catalogo[k].quarto_id : k \in 1..Len(Catalogo)}
FalhasDeConsulta(F) == IF FALSE \in F THEN {{}, TodosQuartos} ELSE {{}}

Init ==
  /\ quartos = Catalogo
  /\ reservas = Sementes
  /\ clientes = {}
  /\ emails = {}
  /\ fila_bi = {}
  /\ pedidos = {}
  /\ proxId = 1
  /\ retorno = SemRetorno
  /\ entrada = <<>>
  /\ saida = <<>>

\* criar_reserva, lines 60-64: a required field is absent
CriarCampoAusente ==
  /\ PodeIniciar
  /\ \E campos \in (SUBSET TodosCampos) \ {TodosCampos} :
       Retornar("criar_reserva", campos, 0, 0,
                erro_response(MensagemCampo(PrimeiroAusente(campos))))
  /\ UNCHANGED <<quartos, reservas, clientes, emails, fila_bi, pedidos, proxId,
                 entrada, saida>>

\* criar_reserva, lines 66-74: the availability check answers no
CriarIndisponivel(F) ==
  /\ PodeIniciar
  /\ \E checkin \in Datas, checkout \in Datas, tipo_quarto \in Tipos,
        catalogoOk \in Resultados(F), falhas \in FalhasDeConsulta(F) :
       /\ ~ verificar_disponibilidade(quartos, reservas, checkin, checkout,
                                      tipo_quarto, catalogoOk, falhas).disponivel
       /\ RetornarCriar(Pedido(tipo_quarto, checkin, checkout), 0,
                        erro_response("Quarto nao disponivel para as datas selecionadas"))
  /\ UNCHANGED <<quartos, reservas, clientes, emails, fila_bi, pedidos, proxId,
                 entrada, saida>>

\* The request going from the price straight to the ledger write, without
\* the call of criar_ou_atualizar_cliente.
CriarVerificadaSemCliente(F) ==
  /\ PodeIniciar
  /\ proxId <= MaxCriadas
  /\ \E checkin \in Datas, checkout \in Datas, tipo_quarto \in Tipos,
        num_hospedes \in Hospedes, email \in Emails,
        catalogoOk \in Resultados(F), falhas \in FalhasDeConsulta(F),
        precoOk \in Resultados(F) :
       /\ verificar_disponibilidade(quartos, reservas, checkin, checkout,
                                    tipo_quarto, catalogoOk, falhas).disponivel
       /\ pedidos' = pedidos \cup
            {[pc |-> "gravar",
              reserva |-> ItemReserva(NovoId(proxId), email, checkin, checkout,
                            tipo_quarto, num_hospedes,
                            calcular_valor_reserva(quartos, checkin, checkout,
                                                   tipo_quarto, num_hospedes, precoOk))]}
  /\ proxId' = proxId + 1
  /\ UNCHANGED <<quartos, reservas, clientes, emails, fila_bi, retorno, entrada, saida>>

\* criar_reserva, lines 66-85: the availability check answers yes, the id is
\* generated and the price computed
CriarVerificada(F) ==
  /\ PodeIniciar
  /\ proxId <= MaxCriadas
  /\ \E checkin \in Datas, checkout \in Datas, tipo_quarto \in Tipos,
        num_hospedes \in Hospedes, email \in Emails,
        catalogoOk \in Resultados(F), falhas \in FalhasDeConsulta(F),
        precoOk \in Resultados(F) :
       /\ verificar_disponibilidade(quartos, reservas, checkin, checkout,
                                    tipo_quarto, catalogoOk, falhas).disponivel
       /\ pedidos' = pedidos \cup
            {[pc |-> "cliente",
              reserva |-> ItemReserva(NovoId(proxId), email, checkin, checkout,
                            tipo_quarto, num_hospedes,
                            calcular_valor_reserva(quartos, checkin, checkout,
                                                   tipo_quarto, num_hospedes, precoOk))]}
  /\ proxId' = proxId + 1
  /\ UNCHANGED <<quartos, reservas, clientes, emails, fila_bi, retorno, entrada, saida>>

\* The customer write letting its failure reach criar_reserva's except clause.
SalvarClientePropaga(p, F) ==
  /\ retorno = SemRetorno
  /\ p.pc = "cliente"
  /\ \E ok \in Resultados(F) :
       IF ok
       THEN /\ clientes' = clientes \cup {p.reserva.cliente_email}
            /\ pedidos' = (pedidos \ {p}) \cup {[p EXCEPT !.pc = "gravar"]}
            /\ retorno' = retorno
       ELSE /\ clientes' = clientes
            /\ pedidos' = pedidos \ {p}
            /\ RetornarCriar(Pedido(p.reserva.tipo_quarto, p.reserva.checkin, p.reserva.checkout),
                             0, erro_response("Erro ao processar reserva"))
  /\ UNCHANGED <<quartos, reservas, emails, fila_bi, proxId, entrada, saida>>

\* criar_ou_atualizar_cliente, lines 264-279: put_item on clientes; a failure
\* is printed and swallowed
SalvarCliente(p, F) ==
  /\ retorno = SemRetorno
  /\ p.pc = "cliente"
  /\ \E ok \in Resultados(F) :
       clientes' = IF ok THEN clientes \cup {p.reserva.cliente_email} ELSE clientes
  /\ pedidos' = (pedidos \ {p}) \cup {[p EXCEPT !.pc = "gravar"]}
  /\ UNCHANGED <<quartos, reservas, emails, fila_bi, proxId, retorno, entrada, saida>>

\* The request sending the confirmation mail and the analytics event before
\* its put_item on reservas.
GravarReservaDepoisDeAvisar(p, F) ==
  /\ retorno = SemRetorno
  /\ p.pc = "gravar"
  /\ emails' = emails \cup {p.reserva.reserva_id}
  /\ fila_bi' = fila_bi \cup {p.reserva.reserva_id}
  /\ \E ok \in Resultados(F) :
       /\ reservas' = IF ok THEN reservas \cup {p.reserva} ELSE reservas
       /\ RetornarCriar(Pedido(p.reserva.tipo_quarto, p.reserva.checkin, p.reserva.checkout),
                        IF ok THEN p.reserva.reserva_id ELSE 0,
                        erro_response("Erro ao processar reserva"))
  /\ pedidos' = pedidos \ {p}
  /\ UNCHANGED <<quartos, clientes, proxId, entrada, saida>>

\* criar_reserva, lines 107-115 and 134-136: put_item on reservas, then the
\* call of atualizar_disponibilidade_quarto, which raises NameError; the
\* except clause answers 'Erro ao processar reserva'.  Lines 117-132 are
\* never reached.
GravarReserva(p, F) ==
  /\ retorno = SemRetorno
  /\ p.pc = "gravar"
  /\ ~ NomeDefinido("atualizar_disponibilidade_quarto")
  /\ \E ok \in Resultados(F) :
       /\ reservas' = IF ok THEN reservas \cup {p.reserva} ELSE reservas
       /\ RetornarCriar(Pedido(p.reserva.tipo_quarto, p.reserva.checkin, p.reserva.checkout),
                        IF ok THEN p.reserva.reserva_id ELSE 0,
                        erro_response("Erro ao processar reserva"))
  /\ pedidos' = pedidos \ {p}
  /\ UNCHANGED <<quartos, clientes, emails, fila_bi, proxId, entrada, saida>>

\* the rooms consultar_disponibilidade appends, in scan order
QuartosLivres(catalogo, tabela, checkin, checkout, tipo_quarto, falhas) ==
  LET livre(q) ==
        /\ (tipo_quarto = "todos" \/ q.tipo = tipo_quarto)
        /\ verificar_quarto_disponivel(tabela, q.quarto_id, checkin, checkout,
                                       q.quarto_id \notin falhas)
      escolhidos == SelectSeq(catalogo, livre)
  IN [k \in 1..Len(escolhidos) |-> escolhidos[k].quarto_id]

\* line 161 copies capacidade as stored and line 169 encodes the list: the
\* encoding succeeds when no appended room carries a Decimal
CorpoSerializavel(catalogo, lista) ==
  \A k \in 1..Len(catalogo) :
    (\E j \in 1..Len(lista) : lista[j] = catalogo[k].quarto_id)
      => json_dumps_ok(catalogo[k].capacidade)

\* consultar_disponibilidade, lines 138-177.  temDatas is FALSE when checkin
\* or checkout is absent (KeyError); scanOk is FALSE when the scan raises.
\* Every exception ends in the except clause of lines 175-177.
consultar_disponibilidade(catalogo, tabela, temDatas, checkin, checkout, tipo_quarto, scanOk, falhas) ==
  IF /\ temDatas /\ scanOk
     /\ CorpoSerializavel(catalogo, QuartosLivres(catalogo, tabela, checkin, checkout, tipo_quarto, falhas))
  THEN RespostaDisponibilidade(QuartosLivres(catalogo, tabela, checkin, checkout, tipo_quarto, falhas))
  ELSE erro_response("Erro ao consultar disponibilidade")

\* lambda_handler, lines 34-35: the consultation is routed and answered
Consultar(F) ==
  /\ PodeIniciar
  /\ \E temDatas \in BOOLEAN, checkin \in Datas, checkout \in Datas,
        tipo_quarto \in Tipos \cup {"todos"},
        scanOk \in Resultados(F), falhas \in FalhasDeConsulta(F) :
       Retornar("consultar_disponibilidade", {}, 0, 0,
                consultar_disponibilidade(quartos, reservas, temDatas, checkin,
                                          checkout, tipo_quarto, scanOk, falhas))
  /\ UNCHANGED <<quartos, reservas, clientes, emails, fila_bi, pedidos, proxId,
                 entrada, saida>>

IdsConhecidos == {r.reserva_id : r \in reservas}

\* lambda_handler, lines 36-37 and 47-53: listar_reservas is not defined
Listar ==
  /\ PodeIniciar
  /\ ~ NomeDefinido("listar_reservas")
  /\ \E alvo \in IdsConhecidos \cup {0} :
       Retornar("listar_reservas", {}, alvo, 0, RespostaErroInterno)
  /\ UNCHANGED <<quartos, reservas, clientes, emails, fila_bi, pedidos, proxId,
                 entrada, saida>>

\* lambda_handler, lines 38-39 and 47-53: cancelar_reserva is not defined
Cancelar ==
  /\ PodeIniciar
  /\ ~ NomeDefinido("cancelar_reserva")
  /\ \E alvo \in IdsConhecidos \cup {0} :
       Retornar("cancelar_reserva", {}, alvo, 0, RespostaErroInterno)
  /\ UNCHANGED <<quartos, reservas, clientes, emails, fila_bi, pedidos, proxId,
                 entrada, saida>>

\* lambda_handler, lines 24-25 and 47-53: event['body'] is not JSON text, so
\* json.loads raises before any action is read
EventoMalformado ==
  /\ PodeIniciar
  /\ Retornar("", {}, 0, 0, RespostaErroInterno)
  /\ UNCHANGED <<quartos, reservas, clientes, emails, fila_bi, pedidos, proxId,
                 entrada, saida>>

\* lambda_handler, lines 40-45
AcaoDesconhecida ==
  /\ PodeIniciar
  /\ Retornar("outra", {}, 0, 0, RespostaAcaoDesconhecida)
  /\ UNCHANGED <<quartos, reservas, clientes, emails, fila_bi, pedidos, proxId,
                 entrada, saida>>

\* the response reaches the caller
Entregar ==
  /\ retorno # SemRetorno
  /\ retorno' = SemRetorno
  /\ UNCHANGED <<quartos, reservas, clientes, emails, fila_bi, pedidos, proxId,
                 entrada, saida>>

Next ==
  \/ CriarCampoAusente
  \/ CriarIndisponivel(BOOLEAN)
  \/ CriarVerificada(BOOLEAN)
  \/ \E p \in pedidos : SalvarCliente(p, BOOLEAN)
  \/ \E p \in pedidos : GravarReserva(p, BOOLEAN)
  \/ Consultar(BOOLEAN)
  \/ Listar
  \/ Cancelar
  \/ AcaoDesconhecida
  \/ EventoMalformado
  \/ Entregar

Spec == Init /\ [][Next]_vars

\* ------------------------------------------- restrictions of the handler
\* No collaborator fails.
NextOk ==
  \/ CriarCampoAusente
  \/ CriarIndisponivel({TRUE})
  \/ CriarVerificada({TRUE})
  \/ \E p \in pedidos : SalvarCliente(p, {TRUE})
  \/ \E p \in pedidos : GravarReserva(p, {TRUE})
  \/ Consultar({TRUE})
  \/ Listar
  \/ Cancelar
  \/ AcaoDesconhecida
  \/ EventoMalformado
  \/ Entregar

SpecOk == Init /\ [][NextOk]_vars

\* Sequential use: an invocation starts only when none is in flight.
NextSeq ==
  \/ pedidos = {} /\ CriarCampoAusente
  \/ pedidos = {} /\ CriarIndisponivel(BOOLEAN)
  \/ pedidos = {} /\ CriarVerificada(BOOLEAN)
  \/ \E p \in pedidos : SalvarCliente(p, BOOLEAN)
  \/ \E p \in pedidos : GravarReserva(p, BOOLEAN)
  \/ pedidos = {} /\ Consultar(BOOLEAN)
  \/ pedidos = {} /\ Listar
  \/ pedidos = {} /\ Cancelar
  \/ pedidos = {} /\ AcaoDesconhecida
  \/ pedidos = {} /\ EventoMalformado
  \/ Entregar

SpecSeq == Init /\ [][NextSeq]_vars

\* Racing requests: every availability check of criar_reserva runs before
\* the first put_item of criar_reserva.
NextCorrida ==
  \/ CriarCampoAusente
  \/ CriarIndisponivel(BOOLEAN)
  \/ reservas = Sementes /\ CriarVerificada(BOOLEAN)
  \/ \E p \in pedidos : SalvarCliente(p, BOOLEAN)
  \/ \E p \in pedidos : GravarReserva(p, BOOLEAN)
  \/ Consultar(BOOLEAN)
  \/ Listar
  \/ Cancelar
  \/ AcaoDesconhecida
  \/ EventoMalformado
  \/ Entregar

SpecCorrida == Init /\ [][NextCorrida]_vars

\* ------------------------------------------------------------ properties
UnidadeUnica(tipo_quarto) == Len(QuartosDoTipo(quartos, tipo_quarto)) = 1

Intervalo(r) == EhISO(r.checkin) /\ EhISO(r.checkout) /\ fromisoformat(r.checkin) < fromisoformat(r.checkout)

\* two confirmed bookings of one single-unit room type whose [checkin,
\* checkout) intervals share a night
Conflitam(r1, r2) ==
  /\ r1.reserva_id # r2.reserva_id
  /\ r1.status = "confirmada" /\ r2.status = "confirmada"
  /\ r1.tipo_quarto = r2.tipo_quarto /\ UnidadeUnica(r1.tipo_quarto)
  /\ Intervalo(r1) /\ Intervalo(r2)
  /\ fromisoformat(r1.checkin) < fromisoformat(r2.checkout)
  /\ fromisoformat(r2.checkin) < fromisoformat(r1.checkout)

\* C1 (race safety): of two racing criar_reserva requests for the same
\* single-unit room type and overlapping dates at most one is stored: the
\* ledger never holds two confirmed bookings of that type that overlap.
C1_SemDuplaConfirmacao == \A r1 \in reservas, r2 \in reservas : ~ Conflitam(r1, r2)

\* C2 (invariant I1, sequential use): a booking stored by an earlier
\* criar_reserva is seen by the availability check of every later one: no
\* request passes the check for a single-unit room type while the ledger
\* holds a confirmed booking of that type overlapping it.
C2_VerificacaoVeLedger == \A p \in pedidos, r \in reservas : ~ Conflitam(p.reserva, r)

\* C4: without collaborator failures, a criar_reserva request with every
\* required field that is not answered 'room unavailable' is answered with
\* success, the id of the booking it stored and the booking's total price.
C4_AceitaComIdEValor ==
  (/\ retorno.acao = "criar_reserva"
   /\ retorno.campos = TodosCampos
   /\ retorno.resposta.error # "Quarto nao disponivel para as datas selecionadas")
  => /\ retorno.resposta.statusCode = 200
     /\ retorno.resposta.success
     /\ \E r \in reservas : /\ r.reserva_id = retorno.resposta.reserva_id
                            /\ r.reserva_id = retorno.gravou
                            /\ r.valor_total = retorno.resposta.valor_total

\* C6: a zero-night stay (checkin = checkout) is rejected and never written
\* to the ledger.
C6_SemEstadiaDeZeroNoites ==
  \A r \in reservas : (EhISO(r.checkin) /\ EhISO(r.checkout)) => fromisoformat(r.checkin) # fromisoformat(r.checkout)

\* C7: a criar_reserva request that lacks a required field is answered with
\* the error naming a field it lacks, and the step changes neither the
\* ledger, the customers, the mails sent nor the analytics queue.
C7_CampoAusenteRejeitado ==
  [][(/\ retorno = SemRetorno
      /\ retorno'.acao = "criar_reserva"
      /\ retorno'.campos # TodosCampos)
     => /\ \E campo \in TodosCampos \ retorno'.campos :
             retorno'.resposta = [SemResposta EXCEPT !.statusCode = 400, !.error = <<"Campo obrigatorio: ", campo>>]
        /\ reservas' = reservas /\ clientes' = clientes
        /\ emails' = emails /\ fila_bi' = fila_bi /\ pedidos' = pedidos]_vars

\* a request without checkout (and with another later field absent too) has
\* been answered with the error naming checkout
C7_Witness ==
  /\ retorno.acao = "criar_reserva"
  /\ retorno.campos = {"cliente_email", "checkin", "tipo_quarto"}
  /\ retorno.resposta.statusCode = 400
  /\ retorno.resposta.error = <<"Campo obrigatorio: ", "checkout">>

\* C8: cancelar_reserva of a confirmed booking succeeds and leaves it
\* cancelled; no cancellation ends in the generic server error.
C8_CancelamentoSemErroInterno ==
  (retorno.acao = "cancelar_reserva" /\ retorno.alvo \in IdsConhecidos)
  => /\ retorno.resposta.statusCode # 500
     /\ \A r \in reservas : r.reserva_id = retorno.alvo => r.status = "cancelada"

\* C9: once cancelar_reserva has answered for a booking, that booking no
\* longer blocks any room for any interval.
C9_CancelamentoLiberaIntervalo ==
  retorno.acao = "cancelar_reserva"
  => \A r \in reservas : r.reserva_id = retorno.alvo =>
       \A k \in 1..Len(quartos), checkin \in DatasISO, checkout \in DatasISO :
         verificar_quarto_disponivel(reservas, quartos[k].quarto_id, checkin, checkout, TRUE)
         = verificar_quarto_disponivel(reservas \ {r}, quartos[k].quarto_id, checkin, checkout, TRUE)

\* C10: a booking created by criar_reserva, fetched by its id through
\* listar_reservas, comes back with status confirmada and the checkin,
\* checkout and total price stored at creation.
C10_IdaEVolta ==
  (retorno.acao = "listar_reservas" /\ \E r \in reservas \ Sementes : r.reserva_id = retorno.alvo)
  => /\ retorno.resposta.statusCode = 200
     /\ retorno.resposta.reserva_id = retorno.alvo

\* ------------------------------ verificar_quarto_disponivel on its own
DiasQ == 0..MaxDiaQ
DatasQ == {DataISO(n) : n \in DiasQ} \cup {DataInvalida}
QuartosQ == {"q1", "q2"}

\* a stored booking of room q for the nights [a, b)
ReservaQ(q, a, b, status) ==
  [reserva_id |-> a + (MaxDiaQ + 1) * (b + (MaxDiaQ + 1) * (IF q = "q1" THEN 0 ELSE 1) + 2 * (MaxDiaQ + 1) * (IF status = "confirmada" THEN 0 ELSE 1)),
   quarto_id |-> q, cliente_email |-> "ana@magic",
   checkin |-> DataISO(a), checkout |-> DataISO(b), tipo_quarto |-> "dormitorio",
   num_hospedes |-> 1, valor_total |-> 50 * (b - a), status |-> status]

PoolQ ==
  {ReservaQ(q, a, b, st) : q \in QuartosQ, a \in DiasQ, b \in DiasQ, st \in {"confirmada", "cancelada"}}

RECURSIVE TabelasAte(_)
TabelasAte(n) ==
  IF n = 0 THEN {{}}
  ELSE LET menores == TabelasAte(n - 1) IN
       menores \cup {t \cup {r} : t \in menores, r \in {x \in PoolQ : fromisoformat(x.checkin) < fromisoformat(x.checkout)}}

InitQuarto ==
  /\ quartos = Catalogo
  /\ reservas = {}
  /\ clientes = {}
  /\ emails = {}
  /\ fila_bi = {}
  /\ pedidos = {}
  /\ proxId = 1
  /\ retorno = SemRetorno
  /\ entrada \in [tabela : TabelasAte(MaxReservasQ), quarto_id : {"q1"},
                  checkin : DatasQ, checkout : DatasQ, ok : BOOLEAN]
  /\ saida = <<>>

ChamarVerificarQuarto ==
  /\ saida = <<>>
  /\ saida' = <<verificar_quarto_disponivel(entrada.tabela, entrada.quarto_id, entrada.checkin, entrada.checkout, entrada.ok)>>
  /\ UNCHANGED <<quartos, reservas, clientes, emails, fila_bi, pedidos, proxId,
                 retorno, entrada>>

SpecQuarto == InitQuarto /\ [][ChamarVerificarQuarto]_vars

\* C3 (overlap detection): when the ledger query answers and both dates
\* parse, verificar_quarto_disponivel is false exactly when some booking of
\* the room with status confirmada has nights [a, b) with c < b and d > a
\* for the requested [c, d); so a request starting on an existing
\* check-out day is available and bookings that are not confirmed never
\* block.
C3_DeteccaoDeSobreposicao ==
  (saida # <<>> /\ entrada.ok /\ entrada.checkin[1] = "iso" /\ entrada.checkout[1] = "iso")
  => LET c == entrada.checkin[2]
         d == entrada.checkout[2]
     IN (saida[1] = FALSE) <=>
          \E r \in entrada.tabela :
            /\ r.quarto_id = entrada.quarto_id
            /\ r.status = "confirmada"
            /\ c < r.checkout[2]
            /\ d > r.checkin[2]

\* the room holds [0, 1) confirmed and [1, 2) cancelled; the request for
\* [1, 3), back to back with the first, has been answered available
C3_Witness ==
  /\ saida = <<TRUE>>
  /\ entrada.ok
  /\ entrada.tabela = {ReservaQ("q1", 0, 1, "confirmada"), ReservaQ("q1", 1, 2, "cancelada")}
  /\ entrada.checkin = DataISO(1) /\ entrada.checkout = DataISO(3)

\* ---------------------------------- calcular_valor_reserva on its own
InitPreco ==
  /\ quartos = Catalogo
  /\ reservas = {}
  /\ clientes = {}
  /\ emails = {}
  /\ fila_bi = {}
  /\ pedidos = {}
  /\ proxId = 1
  /\ retorno = SemRetorno
  /\ entrada \in [tipo_quarto : Tipos, checkin : DatasQ, checkout : DatasQ,
                  num_hospedes : 0..MaxHospedesQ, ok : BOOLEAN]
  /\ saida = <<>>

ChamarCalcularValor ==
  /\ saida = <<>>
  /\ saida' = <<calcular_valor_reserva(quartos, entrada.checkin, entrada.checkout, entrada.tipo_quarto, entrada.num_hospedes, entrada.ok)>>
  /\ UNCHANGED <<quartos, reservas, clientes, emails, fila_bi, pedidos, proxId,
                 retorno, entrada>>

SpecPreco == InitPreco /\ [][ChamarCalcularValor]_vars

\* C5 (price): for a room type of the catalog with nightly rate r, n >= 1
\* nights and g guests, calcular_valor_reserva returns
\* (r + max(0, g - 2) * 15) * n; rate 50, 3 nights: 150 with 2 guests, 240
\* with 4.
C5_ValorDaReserva ==
  (/\ saida # <<>> /\ entrada.ok
   /\ entrada.checkin[1] = "iso" /\ entrada.checkout[1] = "iso"
   /\ entrada.checkout[2] - entrada.checkin[2] >= 1
   /\ \E k \in 1..Len(quartos) : quartos[k].tipo = entrada.tipo_quarto)
  => LET n == entrada.checkout[2] - entrada.checkin[2]
         g == entrada.num_hospedes
         extras == IF g - 2 > 0 THEN g - 2 ELSE 0
     IN /\ \A k \in 1..Len(quartos) : quartos[k].tipo = entrada.tipo_quarto
              => saida[1] = (quartos[k].preco_diaria + extras * 15) * n
        /\ (entrada.tipo_quarto = "dormitorio" /\ n = 3 /\ g = 2) => saida[1] = 150
        /\ (entrada.tipo_quarto = "dormitorio" /\ n = 3 /\ g = 4) => saida[1] = 240

\* the dormitorio (rate 50) for 3 nights and 4 guests has been priced 240
C5_Witness ==
  /\ saida = <<240>>
  /\ entrada.ok
  /\ entrada.tipo_quarto = "dormitorio" /\ entrada.num_hospedes = 4
  /\ entrada.checkin = DataISO(0) /\ entrada.checkout = DataISO(3)

\* every room of the requested type has a confirmed booking overlapping the
\* requested nights (so also: the catalog has no room of the type)
TodosOcupados(ped) ==
  /\ ped.checkin[1] = "iso" /\ ped.checkout[1] = "iso"
  /\ \A k \in 1..Len(quartos) : quartos[k].tipo = ped.tipo_quarto =>
       \E r \in reservas :
         /\ r.quarto_id = quartos[k].quarto_id /\ r.status = "confirmada"
         /\ ped.checkin[2] < r.checkout[2] /\ ped.checkout[2] > r.checkin[2]

\* C11: a criar_reserva request for a type whose rooms all have an
\* overlapping confirmed booking, or that has no room in the catalog, is
\* answered 'room unavailable' in a step that writes neither ledger nor
\* customer and dispatches nothing; no such request is ever in flight
\* towards the customer upsert or the ledger write.
C11_IndisponivelRejeitado ==
  /\ [](\A p \in pedidos : ~ TodosOcupados(p.reserva))
  /\ [][(/\ retorno = SemRetorno
         /\ retorno'.acao = "criar_reserva"
         /\ retorno'.campos = TodosCampos
         /\ TodosOcupados(retorno'.pedido))
        => /\ retorno'.resposta.statusCode = 400
           /\ retorno'.resposta.error = "Quarto nao disponivel para as datas selecionadas"
           /\ retorno'.gravou = 0
           /\ reservas' = reservas /\ clientes' = clientes
           /\ emails' = emails /\ fila_bi' = fila_bi /\ pedidos' = pedidos]_vars

\* a request for the dormitorio on nights [0, 2), which overlap the
\* confirmed booking of its only room, has been answered 'room unavailable'
C11_Witness ==
  /\ retorno.acao = "criar_reserva"
  /\ retorno.pedido = Pedido("dormitorio", DataISO(0), DataISO(2))
  /\ retorno.resposta.error = "Quarto nao disponivel para as datas selecionadas"
  /\ reservas = Sementes /\ clientes = {}

\* C12: a criar_reserva request that carries every field but whose check-in
\* or check-out is not an ISO date is rejected with an error other than the
\* one reporting that the room is unavailable.
C12_EntradaInvalidaDistinta ==
  (/\ retorno.acao = "criar_reserva"
   /\ retorno.campos = TodosCampos
   /\ (~ EhISO(retorno.pedido.checkin) \/ ~ EhISO(retorno.pedido.checkout)))
  => /\ retorno.resposta.statusCode = 400
     /\ retorno.resposta.error # "Quarto nao disponivel para as datas selecionadas"

\* C13: whatever the notification and analytics collaborators do, a request
\* that has written its booking returns with the booking in the ledger as
\* confirmed, the analytics publish attempted for it, and the response that
\* is given when both dispatches succeed.
C13_EfeitosNaoAlteramResultado ==
  retorno.gravou # 0 =>
    \E r \in reservas :
      /\ r.reserva_id = retorno.gravou
      /\ r.status = "confirmada"
      /\ retorno.gravou \in fila_bi
      /\ retorno.resposta = RespostaReservaCriada(r.reserva_id, r.valor_total)

\* C14: the customer upsert of a request, whether its write succeeds or
\* fails, hands the request with the same booking item on to the ledger
\* write, answers nothing and leaves the ledger alone; the ledger write that
\* follows stores exactly that item, whether or not the customer was stored.
C14_ClienteMelhorEsforco ==
  [][\A p \in pedidos :
       /\ (p.pc = "cliente" /\ p \notin pedidos')
            => /\ [p EXCEPT !.pc = "gravar"] \in pedidos'
               /\ reservas' = reservas
               /\ retorno' = retorno
               /\ clientes' \subseteq clientes \cup {p.reserva.cliente_email}
       /\ (p.pc = "gravar" /\ p \notin pedidos')
            => /\ reservas' \in {reservas, reservas \cup {p.reserva}}
               /\ retorno'.gravou = (IF reservas' = reservas THEN 0 ELSE p.reserva.reserva_id)
               /\ clientes' = clientes]_vars

\* a booking is in the ledger although the write of its customer failed
C14_Witness ==
  \E r \in reservas \ Sementes :
    /\ r.cliente_email \notin clientes
    /\ retorno.gravou = r.reserva_id

\* C15: every response lambda_handler returns, whatever the action and
\* whatever the collaborators do, has status 200, 400 or 500 and the fixed
\* CORS headers; a status 500 carries the generic message and nothing else;
\* an event that cannot be parsed and a routed function that is not defined
\* are answered with status 500.
C15_HandlerTotal ==
  retorno # SemRetorno =>
    /\ retorno.resposta.statusCode \in {200, 400, 500}
    /\ retorno.resposta.headers =
         [origin |-> "*",
          headers |-> "Content-Type,X-Amz-Date,Authorization,X-Api-Key,X-Amz-Security-Token",
          methods |-> "GET,POST,OPTIONS,PUT,DELETE"]
    /\ retorno.resposta.statusCode = 500 =>
         /\ retorno.resposta.error = "Erro interno do servidor"
         /\ ~ retorno.resposta.success
         /\ retorno.resposta.reserva_id = 0 /\ retorno.resposta.valor_total = 0
         /\ retorno.resposta.quartos_disponiveis = <<>>
    /\ retorno.acao \in {"", "listar_reservas", "cancelar_reserva"} =>
         retorno.resposta.statusCode = 500
    /\ retorno.acao \in {"criar_reserva", "consultar_disponibilidade", "outra"} =>
         retorno.resposta.statusCode \in {200, 400}

\* an event whose body is not JSON has been answered with status 500
C15_Witness ==
  /\ retorno.acao = ""
  /\ retorno.resposta.statusCode = 500
  /\ retorno.resposta.error = "Erro interno do servidor"

\* ------------------------------------ verificar_disponibilidade on its own
\* the answers of the tipo-index query: the rooms q1 and q2 in either order,
\* both duplo or q1 a dormitorio
QuartoD(quarto_id, tipo) == [quarto_id |-> quarto_id, tipo |-> tipo, preco_diaria |-> 80]

CatalogosD ==
  {<<QuartoD(par[1], tipo), QuartoD(par[2], "duplo")>> :
     par \in {x \in QuartosQ \X QuartosQ : x[1] # x[2]}, tipo \in {"duplo", "dormitorio"}}

TabelasConfirmadas ==
  {t \in TabelasAte(MaxReservasQ) : \A r \in t : r.status = "confirmada"}

InitDisp ==
  /\ quartos = Catalogo
  /\ reservas = {}
  /\ clientes = {}
  /\ emails = {}
  /\ fila_bi = {}
  /\ pedidos = {}
  /\ proxId = 1
  /\ retorno = SemRetorno
  /\ entrada \in [catalogo : CatalogosD, tabela : TabelasConfirmadas,
                  checkin : DatasQ, checkout : DatasQ, tipo_quarto : {"duplo", "suite"},
                  catalogoOk : BOOLEAN, falhas : SUBSET QuartosQ]
  /\ saida = <<>>

ChamarVerificarDisponibilidade ==
  /\ saida = <<>>
  /\ saida' = <<verificar_disponibilidade(entrada.catalogo, entrada.tabela, entrada.checkin, entrada.checkout, entrada.tipo_quarto, entrada.catalogoOk, entrada.falhas)>>
  /\ UNCHANGED <<quartos, reservas, clientes, emails, fila_bi, pedidos, proxId,
                 retorno, entrada>>

SpecDisp == InitDisp /\ [][ChamarVerificarDisponibilidade]_vars

\* room q has no confirmed booking in tabela overlapping the nights [c, d)
SemSobreposicao(tabela, q, c, d) ==
  ~ \E r \in tabela : /\ r.quarto_id = q /\ r.status = "confirmada"
                      /\ c < r.checkout[2] /\ d > r.checkin[2]

\* C16 (per-instance selection): when the queries answer and both dates
\* parse, verificar_disponibilidade reports disponivel exactly when some
\* room of the requested type has no overlapping confirmed booking, and then
\* names the first such room in the order the catalog returned them; it
\* reports not available only when every room of the type has one.
C16_SelecaoPorQuarto ==
  (/\ saida # <<>> /\ entrada.catalogoOk /\ entrada.falhas = {}
   /\ entrada.checkin[1] = "iso" /\ entrada.checkout[1] = "iso")
  => LET cat == entrada.catalogo
         livres == {k \in 1..Len(cat) :
                      /\ cat[k].tipo = entrada.tipo_quarto
                      /\ SemSobreposicao(entrada.tabela, cat[k].quarto_id,
                                         entrada.checkin[2], entrada.checkout[2])}
     IN /\ saida[1].disponivel <=> livres # {}
        /\ saida[1].disponivel =>
             \E k \in livres : /\ \A j \in livres : k <= j
                               /\ saida[1].quarto_id = cat[k].quarto_id
        /\ ~ saida[1].disponivel =>
             \A k \in 1..Len(cat) : cat[k].tipo = entrada.tipo_quarto =>
               ~ SemSobreposicao(entrada.tabela, cat[k].quarto_id,
                                 entrada.checkin[2], entrada.checkout[2])

\* both rooms are duplo, the first one returned has a confirmed booking on
\* the requested nights, and the answer names the second
C16_Witness ==
  /\ saida # <<>>
  /\ entrada.catalogo = <<QuartoD("q1", "duplo"), QuartoD("q2", "duplo")>>
  /\ entrada.tipo_quarto = "duplo"
  /\ entrada.catalogoOk /\ entrada.falhas = {}
  /\ entrada.checkin = DataISO(0) /\ entrada.checkout = DataISO(2)
  /\ entrada.tabela = {ReservaQ("q1", 1, 3, "confirmada")}
  /\ saida[1] = [disponivel |-> TRUE, quarto_id |-> "q2"]

\* ------------------------------------ consultar_disponibilidade on its own
\* the answers of the scan: a dormitorio and a duplo, each with capacidade
\* stored as a Number or as a String
QuartoC(quarto_id, tipo, capacidade) ==
  [quarto_id |-> quarto_id, tipo |-> tipo, capacidade |-> capacidade, preco_diaria |-> 80]

CatalogosC ==
  {<<QuartoC("q1", "dormitorio", c1), QuartoC("q2", "duplo", c2)>> :
     c1 \in {Decimal(8), Str(8)}, c2 \in {Decimal(2), Str(2)}}

InitConsulta ==
  /\ quartos = Catalogo
  /\ reservas = {}
  /\ clientes = {}
  /\ emails = {}
  /\ fila_bi = {}
  /\ pedidos = {}
  /\ proxId = 1
  /\ retorno = SemRetorno
  /\ entrada \in [catalogo : CatalogosC, tabela : TabelasConfirmadas, temDatas : BOOLEAN,
                  checkin : DatasQ, checkout : DatasQ,
                  tipo_quarto : {"dormitorio", "duplo", "todos"},
                  scanOk : BOOLEAN, falhas : {{}, QuartosQ}]
  /\ saida = <<>>

ChamarConsultar ==
  /\ saida = <<>>
  /\ saida' = <<consultar_disponibilidade(entrada.catalogo, entrada.tabela, entrada.temDatas, entrada.checkin, entrada.checkout, entrada.tipo_quarto, entrada.scanOk, entrada.falhas)>>
  /\ UNCHANGED <<quartos, reservas, clientes, emails, fila_bi, pedidos, proxId,
                 retorno, entrada>>

SpecConsulta == InitConsulta /\ [][ChamarConsultar]_vars

\* C17: when the request carries both dates, they parse and the scan and the
\* ledger queries answer, consultar_disponibilidade answers with status 200
\* and exactly the rooms of the scan, in its order, that match the requested
\* type (all of them for 'todos') and have no overlapping confirmed booking,
\* and the count is the number of rooms listed.
C17_ConsultaExata ==
  (/\ saida # <<>> /\ entrada.temDatas /\ entrada.scanOk /\ entrada.falhas = {}
   /\ entrada.checkin[1] = "iso" /\ entrada.checkout[1] = "iso")
  => LET cat == entrada.catalogo
         livre(q) == /\ entrada.tipo_quarto \in {"todos", q.tipo}
                     /\ SemSobreposicao(entrada.tabela, q.quarto_id,
                                        entrada.checkin[2], entrada.checkout[2])
         esperados == SelectSeq(cat, livre)
     IN /\ saida[1].statusCode = 200
        /\ saida[1].quartos_disponiveis = [k \in 1..Len(esperados) |-> esperados[k].quarto_id]
        /\ saida[1].total_encontrados = Len(esperados)

\* C18: the step in which a criar_reserva request is answered with anything
\* but success leaves the ledger as it was.
C18_RejeicaoNaoGrava ==
  [][(/\ retorno = SemRetorno
      /\ retorno'.acao = "criar_reserva"
      /\ ~ (retorno'.resposta.statusCode = 200 /\ retorno'.resposta.success))
     => reservas' = reservas]_vars

\* C19: every booking that criar_reserva has written and whose request has
\* ended was handed to the confirmation mail and to the analytics queue.
C19_GravadaEntaoNotificada ==
  \A r \in reservas \ Sementes :
    (\A p \in pedidos : p.reserva.reserva_id # r.reserva_id)
      => r.reserva_id \in emails /\ r.reserva_id \in fila_bi

\* C20: a booking id is handed to the confirmation mail or to the analytics
\* queue only when the booking is in the ledger; the step in which the
\* ledger write of a request fails sends neither and answers with an error.
C20_EfeitosDepoisDaGravacao ==
  /\ [](\A id \in emails \cup fila_bi : \E r \in reservas : r.reserva_id = id)
  /\ [][\A p \in pedidos :
          (p.pc = "gravar" /\ p \notin pedidos' /\ reservas' = reservas)
            => /\ emails' = emails /\ fila_bi' = fila_bi
               /\ retorno'.acao = "criar_reserva"
               /\ retorno'.resposta.statusCode \in {400, 500}
               /\ ~ retorno'.resposta.success
               /\ retorno'.resposta.error # ""]_vars

\* the ledger write of a request failed: the request has been answered with
\* the processing error, its booking is not in the ledger and nothing was
\* sent
C20_Witness ==
  /\ retorno.acao = "criar_reserva"
  /\ retorno.campos = TodosCampos
  /\ retorno.gravou = 0
  /\ retorno.resposta.error = "Erro ao processar reserva"
  /\ reservas = Sementes
  /\ emails = {} /\ fila_bi = {}

\* C21 (ledger lifecycle): every booking of the ledger has status confirmada
\* or cancelada; no step removes a booking; a booking enters the ledger as
\* confirmada; a step changes a booking at most in its status, from
\* confirmada to cancelada, and only when it answers a cancelar_reserva
\* request.
C21_CicloDeVidaDoLedger ==
  /\ [](\A r \in reservas : r.status \in {"confirmada", "cancelada"})
  /\ [][(\A r \in reservas :
           \E n \in reservas' :
             /\ n.reserva_id = r.reserva_id
             /\ \/ n = r
                \/ /\ n = [r EXCEPT !.status = "cancelada"]
                   /\ r.status = "confirmada"
                   /\ retorno'.acao = "cancelar_reserva")
        /\ (\A novo \in reservas' :
             (\A r \in reservas : r.reserva_id # novo.reserva_id)
               => novo.status = "confirmada")]_vars

\* criar_reserva has added a booking, a cancelar_reserva request for a
\* booking of the ledger has then been answered, and the bookings present
\* at the start are all still there
C21_Witness ==
  /\ reservas \ Sementes # {}
  /\ Sementes \subseteq reservas
  /\ retorno.acao = "cancelar_reserva"
  /\ retorno.alvo \in {r.reserva_id : r \in reservas \ Sementes}

\* C22 (well-formed records): every booking criar_reserva has written has
\* its check-out after its check-in and a positive stored total equal to
\* (nightly rate of its type + 15 per guest beyond two) times its nights.
C22_RegistrosBemFormados ==
  \A r \in reservas \ Sementes :
    /\ r.checkin[1] = "iso" /\ r.checkout[1] = "iso"
    /\ r.checkin[2] < r.checkout[2]
    /\ r.valor_total > 0
    /\ \E k \in 1..Len(quartos) :
         /\ quartos[k].tipo = r.tipo_quarto
         /\ r.valor_total =
              (quartos[k].preco_diaria
                 + (IF r.num_hospedes > 2 THEN (r.num_hospedes - 2) * 15 ELSE 0))
              * (r.checkout[2] - r.checkin[2])

C24_RoteamentoDeAcoes ==
  /\ retorno.acao \in {"criar_reserva", "consultar_disponibilidade",
                       "listar_reservas", "cancelar_reserva"}
       => /\ retorno.resposta.statusCode \in {200, 400}
          /\ retorno.resposta.error # "Erro interno do servidor"
  /\ retorno.acao = "outra"
       => /\ retorno.resposta.statusCode = 400
          /\ retorno.resposta.error = "Acao nao reconhecida"

\* the dates of the request parse and some room of its type has no
\* confirmed booking of the ledger overlapping its nights
AlgumLivre(ped) ==
  /\ ped.checkin[1] = "iso" /\ ped.checkout[1] = "iso"
  /\ \E k \in 1..Len(quartos) :
       /\ quartos[k].tipo = ped.tipo_quarto
       /\ SemSobreposicao(reservas, quartos[k].quarto_id, ped.checkin[2], ped.checkout[2])

\* C25 (customer upsert coupling): a booking enters the ledger only from a
\* request that is past its customer upsert; a request gets past the upsert
\* only by making the attempt; a request reaches the upsert only in a step
\* whose availability check found a free room; and the customer store
\* changes only by the upsert of such a request adding its e-mail.
C25_ClienteAntesDaReserva ==
  [][/\ (\A r \in reservas' \ reservas :
           \E p \in pedidos : p.pc = "gravar" /\ p.reserva = r)
     /\ (\A p \in pedidos' \ pedidos :
           IF p.pc = "gravar"
           THEN [p EXCEPT !.pc = "cliente"] \in pedidos
           ELSE p.pc = "cliente" /\ AlgumLivre(p.reserva))
     /\ (clientes' # clientes =>
           \E p \in pedidos :
             /\ p.pc = "cliente"
             /\ [p EXCEPT !.pc = "gravar"] \in pedidos'
             /\ clientes' = clientes \cup {p.reserva.cliente_email})]_vars

\* the customer of a request is stored, the ledger write of that request
\* failed, and the ledger holds no booking of that customer
C25_Witness ==
  /\ retorno.acao = "criar_reserva"
  /\ retorno.gravou = 0
  /\ retorno.resposta.error = "Erro ao processar reserva"
  /\ clientes = {"ana@magic"}
  /\ \A r \in reservas : r.cliente_email # "ana@magic"

\* ------------------------------- ml_bi_pipeline.py: lambda_validar_dados
\* A date text in the form %Y-%m-%d for day n, and a text in another form.
DataYMD(n) == <<"%Y-%m-%d", n>>
DataForaDoFormato == <<"%d/%m/%Y", 0>>

\* datetime.strptime(texto, '%Y-%m-%d') raises ValueError on a text that is
\* not in the format and otherwise yields the date
strptime_ok(texto) == texto[1] = "%Y-%m-%d"
strptime(texto) == texto[2]

required_fields == <<"start_date", "end_date", "data_source">>

\* the keys the function sets in the event it returns (lines 529-534)
CamposGravados == {"validation_timestamp", "data_key", "status"}

\* line 532
data_key(event) ==
  <<"processed_data/", event["data_source"], "/", event["start_date"], "_to_",
    event["end_date"], ".json">>

\* the outcome of a call: an exception that leaves the function, or the
\* event returned
Levanta(mensagem) == [raised |-> TRUE, erro |-> mensagem, evento |-> <<>>]
Devolve(evento) == [raised |-> FALSE, erro |-> "", evento |-> evento]

\* the first key of required_fields that the event lacks (lines 518-520)
PrimeiroCampoAusente(event) ==
  LET ausentes == {k \in 1..Len(required_fields) : required_fields[k] \notin DOMAIN event}
  IN required_fields[CHOOSE k \in ausentes : \A j \in ausentes : k <= j]

\* The validation accepting a period that ends on the day it starts.
lambda_validar_dados_aceita_igual(event, agora) ==
  IF \E k \in 1..Len(required_fields) : required_fields[k] \notin DOMAIN event
  THEN Levanta(<<"Campo obrigatorio ausente: ", PrimeiroCampoAusente(event)>>)
  ELSE IF ~ strptime_ok(event["start_date"]) \/ ~ strptime_ok(event["end_date"])
  THEN Levanta("ValueError")
  ELSE IF strptime(event["start_date"]) > strptime(event["end_date"])
  THEN Levanta("Data de inicio deve ser anterior a data de fim")
  ELSE Devolve([k \in DOMAIN event \cup CamposGravados |->
                  IF k = "validation_timestamp" THEN agora
                  ELSE IF k = "data_key" THEN data_key(event)
                  ELSE IF k = "status" THEN "validated"
                  ELSE event[k]])

\* lambda_validar_dados, lines 510-542; agora is datetime.now().isoformat().
\* The except clause of lines 540-542 logs and raises again.
lambda_validar_dados(event, agora) ==
  IF \E k \in 1..Len(required_fields) : required_fields[k] \notin DOMAIN event
  THEN Levanta(<<"Campo obrigatorio ausente: ", PrimeiroCampoAusente(event)>>)
  ELSE IF ~ strptime_ok(event["start_date"]) \/ ~ strptime_ok(event["end_date"])
  THEN Levanta("ValueError")
  ELSE IF strptime(event["start_date"]) >= strptime(event["end_date"])
  THEN Levanta("Data de inicio deve ser anterior a data de fim")
  ELSE Devolve([k \in DOMAIN event \cup CamposGravados |->
                  IF k = "validation_timestamp" THEN agora
                  ELSE IF k = "data_key" THEN data_key(event)
                  ELSE IF k = "status" THEN "validated"
                  ELSE event[k]])

\* the events the pipeline is started with: any subset of the three
\* required keys, of a status key and of a key the function does not know
DatasV == {DataYMD(n) : n \in 0..MaxDiaV} \cup {DataForaDoFormato}
ChavesV == {"start_date", "end_date", "data_source", "status", "origem"}

EventoV(chaves, inicio, fim, fonte) ==
  [k \in chaves |->
     IF k = "start_date" THEN inicio
     ELSE IF k = "end_date" THEN fim
     ELSE IF k = "data_source" THEN fonte
     ELSE IF k = "status" THEN "pending"
     ELSE "eventbridge"]

EventosV ==
  {EventoV(chaves, inicio, fim, fonte) :
     chaves \in SUBSET ChavesV, inicio \in DatasV, fim \in DatasV,
     fonte \in {"reservas", "avaliacoes"}}

InitValidar ==
  /\ quartos = Catalogo
  /\ reservas = {}
  /\ clientes = {}
  /\ emails = {}
  /\ fila_bi = {}
  /\ pedidos = {}
  /\ proxId = 1
  /\ retorno = SemRetorno
  /\ entrada \in EventosV
  /\ saida = <<>>

ChamarValidarDados ==
  /\ saida = <<>>
  /\ \E agora \in {"t1", "t2"} : saida' = <<lambda_validar_dados(entrada, agora)>>
  /\ UNCHANGED <<quartos, reservas, clientes, emails, fila_bi, pedidos, proxId,
                 retorno, entrada>>

SpecValidar == InitValidar /\ [][ChamarValidarDados]_vars

\* a required key is absent from the event
FaltaCampo(event) == {"start_date", "end_date", "data_source"} \ DOMAIN event # {}

\* C26 as stated: lambda_validar_dados raises exactly when a required key is
\* absent or start_date is not before end_date; otherwise the event it
\* returns has every key of the input with the input's value, status
\* 'validated' and the data_key of data_source, start_date and end_date.
C26_PortaoDeValidacao ==
  saida # <<>> =>
    LET naoAntes == /\ ~ FaltaCampo(entrada)
                    /\ entrada["start_date"][1] = "%Y-%m-%d"
                    /\ entrada["end_date"][1] = "%Y-%m-%d"
                    /\ entrada["start_date"][2] >= entrada["end_date"][2]
    IN /\ saida[1].raised <=> (FaltaCampo(entrada) \/ naoAntes)
       /\ ~ saida[1].raised =>
            /\ \A k \in DOMAIN entrada : saida[1].evento[k] = entrada[k]
            /\ saida[1].evento["status"] = "validated"
            /\ saida[1].evento["data_key"] =
                 <<"processed_data/", entrada["data_source"], "/",
                   entrada["start_date"], "_to_", entrada["end_date"], ".json">>

\* C26 amended: lambda_validar_dados raises exactly when a required key is
\* absent, a date is not in the form %Y-%m-%d, or start_date is not before
\* end_date; otherwise the event it returns has the keys of the input and
\* validation_timestamp, data_key and status, with status 'validated', the
\* data_key of data_source, start_date and end_date, and the input's value
\* under every other key.
C26_PortaoDeValidacaoCorrigido ==
  saida # <<>> =>
    LET foraDoFormato == /\ ~ FaltaCampo(entrada)
                         /\ \/ entrada["start_date"][1] # "%Y-%m-%d"
                            \/ entrada["end_date"][1] # "%Y-%m-%d"
        naoAntes == /\ ~ FaltaCampo(entrada) /\ ~ foraDoFormato
                    /\ entrada["start_date"][2] >= entrada["end_date"][2]
    IN /\ saida[1].raised <=> (FaltaCampo(entrada) \/ foraDoFormato \/ naoAntes)
       /\ ~ saida[1].raised =>
            /\ DOMAIN saida[1].evento =
                 DOMAIN entrada \cup {"validation_timestamp", "data_key", "status"}
            /\ \A k \in DOMAIN entrada \ {"validation_timestamp", "data_key", "status"} :
                 saida[1].evento[k] = entrada[k]
            /\ saida[1].evento["status"] = "validated"
            /\ saida[1].evento["data_key"] =
                 <<"processed_data/", entrada["data_source"], "/",
                   entrada["start_date"], "_to_", entrada["end_date"], ".json">>

\* an event with the three required keys, an unknown key and a period of
\* one day has been returned validated
C26_Witness ==
  /\ saida # <<>>
  /\ entrada = EventoV({"start_date", "end_date", "data_source", "origem"},
                       DataYMD(0), DataYMD(1), "reservas")
  /\ ~ saida[1].raised
  /\ saida[1].evento["status"] = "validated"
  /\ saida[1].evento["origem"] = "eventbridge"

\* ------------------------ ml_bi_pipeline.py: lambda_atualizar_quicksight
\* the entry appended for one dashboard: lines 711-715 when
\* create_refresh_schedule answers, lines 717-723 when it raises
ResultadoRefresh(dashboard_id, chamadaOk) ==
  IF chamadaOk
  THEN [dashboard_id |-> dashboard_id, status |-> "success", detalhe |-> "ScheduleId"]
  ELSE [dashboard_id |-> dashboard_id, status |-> "error", detalhe |-> "dashboard_error"]

\* The loop with its call outside a try block: the first failing refresh
\* leaves the function.
AtualizarSemIsolamento(dashboard_ids, chamadas, resultados_refresh) ==
  IF \E k \in 1..Len(dashboard_ids) : ~ chamadas[k]
  THEN Levanta("dashboard_error")
  ELSE Devolve([k \in 1..Len(dashboard_ids) |-> ResultadoRefresh(dashboard_ids[k], TRUE)])

\* the loop of lines 699-723: chamadas[k] is FALSE when the k-th call of
\* create_refresh_schedule raises
RECURSIVE AtualizarPaineis(_, _, _)
AtualizarPaineis(dashboard_ids, chamadas, resultados_refresh) ==
  IF dashboard_ids = <<>> THEN Devolve(resultados_refresh)
  ELSE AtualizarPaineis(Tail(dashboard_ids), Tail(chamadas),
                        Append(resultados_refresh,
                               ResultadoRefresh(Head(dashboard_ids), Head(chamadas))))

\* lambda_atualizar_quicksight, lines 687-732.  temIds is FALSE when the
\* event has no dashboard_ids key, arnOk is FALSE when the ARN of the
\* context has fewer than five fields; both raise before the loop and the
\* except clause of lines 730-732 raises again.
lambda_atualizar_quicksight(temIds, dashboard_ids, arnOk, chamadas) ==
  IF ~ temIds THEN Levanta("KeyError")
  ELSE IF ~ arnOk THEN Levanta("IndexError")
  ELSE AtualizarPaineis(dashboard_ids, chamadas, <<>>)

Paineis == {"vendas", "ocupacao"}

ListasAte(valores, n) == UNION {[1..m -> valores] : m \in 0..n}

InitPaineis ==
  /\ quartos = Catalogo
  /\ reservas = {}
  /\ clientes = {}
  /\ emails = {}
  /\ fila_bi = {}
  /\ pedidos = {}
  /\ proxId = 1
  /\ retorno = SemRetorno
  /\ entrada \in {e \in [temIds : BOOLEAN, dashboard_ids : ListasAte(Paineis, MaxPaineis),
                         arnOk : BOOLEAN, chamadas : ListasAte(BOOLEAN, MaxPaineis)] :
                    Len(e.chamadas) = Len(e.dashboard_ids)}
  /\ saida = <<>>

ChamarAtualizarQuicksight ==
  /\ saida = <<>>
  /\ saida' = <<lambda_atualizar_quicksight(entrada.temIds, entrada.dashboard_ids, entrada.arnOk, entrada.chamadas)>>
  /\ UNCHANGED <<quartos, reservas, clientes, emails, fila_bi, pedidos, proxId,
                 retorno, entrada>>

SpecPaineis == InitPaineis /\ [][ChamarAtualizarQuicksight]_vars

\* C27 (per-dashboard failure isolation): for an event that carries
\* dashboard_ids and a context with a well-formed ARN,
\* lambda_atualizar_quicksight returns, and its refresh_results has one
\* entry per position of dashboard_ids, in the same order, carrying that id
\* and marked 'error' when the refresh of that position raised and
\* 'success' otherwise, whatever happened at the other positions.
C27_IsolamentoPorPainel ==
  (saida # <<>> /\ entrada.temIds /\ entrada.arnOk)
  => /\ ~ saida[1].raised
     /\ Len(saida[1].evento) = Len(entrada.dashboard_ids)
     /\ \A k \in 1..Len(entrada.dashboard_ids) :
          /\ saida[1].evento[k].dashboard_id = entrada.dashboard_ids[k]
          /\ saida[1].evento[k].status \in {"success", "error"}
          /\ saida[1].evento[k].status = "error" <=> ~ entrada.chamadas[k]

\* of three dashboards the refresh of the first one raised: the answer has
\* three entries, the first marked error and the two after it success
C27_Witness ==
  /\ saida # <<>>
  /\ entrada.temIds /\ entrada.arnOk
  /\ entrada.dashboard_ids = <<"vendas", "ocupacao", "vendas">>
  /\ entrada.chamadas = <<FALSE, TRUE, TRUE>>
  /\ ~ saida[1].raised
  /\ Len(saida[1].evento) = 3
  /\ saida[1].evento[1].status = "error"
  /\ saida[1].evento[2].status = "success"
  /\ saida[1].evento[3].status = "success"

====
